---- MODULE Spec2Model ----
(***************************************************************************)
(* A model of app.py: the upload merge loop, the three extractors, the     *)
(* live model discovery (find_best_model), the PubMed adapter              *)
(* (search_pubmed), the three-stage pipeline (run_full_analysis) and the   *)
(* result handling of the main script.                                     *)
(*                                                                         *)
(* Python strings are TLA+ strings: s[:n] is Take, `a in b` is Contains,   *)
(* s.startswith(p) is StartsWith, s.strip() is Strip.  The module's parser *)
(* reads ASCII only, so the Chinese literals of app.py are written as      *)
(* ASCII renderings of the same text; the "Error" prefixes, the brackets   *)
(* and the interpolated values are those of the source.                    *)
(*                                                                         *)
(* Python's None / a value is the empty / one-element sequence.            *)
(* Every library call (pypdf, python-docx, PIL, Entrez, genai) is an       *)
(* input: it returns a value or raises, chosen by \E from a small set.     *)
(***************************************************************************)
EXTENDS Integers, Sequences, FiniteSets, TLC

VARIABLES
    pc,             \* position of the script / stage of run_full_analysis
    uploaded_files, \* st.file_uploader's list (names), in upload order
    i,              \* number of files the merge loop has handled
    combined_text,  \* the main script's corpus
    extractLog,     \* per handled file: what its extractor did
    warnings,       \* st.warning messages of the merge loop
    arg_text,       \* run_full_analysis's parameter combined_text
    available_models, \* find_best_model's available_models, as of the run's call
    model_name,     \* run_full_analysis's model_name (None or a name)
    error,          \* run_full_analysis's error (None or a message)
    keyword_prompt, \* prompt of the keyword stage
    keywords,       \* kw_resp.text.strip()
    pubmed_data,    \* what search_pubmed returned
    review_prompt,  \* prompt of the synthesis stage
    result,         \* run_full_analysis's return value (None before)
    outcome,        \* how run_full_analysis ended: stage tag of the return
    shown,          \* what the main script presented
    calls           \* every library call made so far, in order

vars == <<pc, uploaded_files, i, combined_text, extractLog, warnings, arg_text,
          available_models, model_name, error, keyword_prompt, keywords, pubmed_data, review_prompt,
          result, outcome, shown, calls>>

-----------------------------------------------------------------------------
(* Bounds *)

\* uploads per run under SpecMerge
MaxUploads == 2
\* uploads per run under Spec
MaxRunUploads == 1
\* length of a provider listing under SpecResolver
MaxModels == 3

(* Program constants *)

\* combined_text[:5000]
KeywordBudget == 5000
\* combined_text[:30000]
ReportBudget == 30000

-----------------------------------------------------------------------------
(* Python values *)

None == <<>>
Some(x) == <<x>>
\* Python truthiness of None-or-string
Truthy(opt) == opt # None /\ opt[1] # ""
\* f"{x}" of None-or-string
PyStr(opt) == IF opt = None THEN "None" ELSE opt[1]

Min(a, b) == IF a < b THEN a ELSE b

\* s[:n]
Take(s, n) == SubSeq(s, 1, Min(n, Len(s)))
\* s.startswith(p)
StartsWith(s, p) == Len(s) >= Len(p) /\ SubSeq(s, 1, Len(p)) = p
\* sub in s
Contains(sub, s) ==
    \E k \in 1..(Len(s) - Len(sub) + 1) : SubSeq(s, k, k + Len(sub) - 1) = sub
\* s.count(sub) for a sub that cannot overlap itself
CountOcc(sub, s) ==
    Cardinality({k \in 1..(Len(s) - Len(sub) + 1) :
                    SubSeq(s, k, k + Len(sub) - 1) = sub})

Whitespace == {" ", "\n", "\t", "\r"}
RECURSIVE LStrip(_)
LStrip(s) ==
    IF Len(s) > 0 /\ SubSeq(s, 1, 1) \in Whitespace
    THEN LStrip(SubSeq(s, 2, Len(s))) ELSE s
RECURSIVE RStrip(_)
RStrip(s) ==
    IF Len(s) > 0 /\ SubSeq(s, Len(s), Len(s)) \in Whitespace
    THEN RStrip(SubSeq(s, 1, Len(s) - 1)) ELSE s
\* s.strip()
Strip(s) == RStrip(LStrip(s))

LowerChar(c) ==
    CASE c = "A" -> "a" [] c = "B" -> "b" [] c = "C" -> "c" [] c = "D" -> "d"
      [] c = "E" -> "e" [] c = "F" -> "f" [] c = "G" -> "g" [] c = "H" -> "h"
      [] c = "I" -> "i" [] c = "J" -> "j" [] c = "K" -> "k" [] c = "L" -> "l"
      [] c = "M" -> "m" [] c = "N" -> "n" [] c = "O" -> "o" [] c = "P" -> "p"
      [] c = "Q" -> "q" [] c = "R" -> "r" [] c = "S" -> "s" [] c = "T" -> "t"
      [] c = "U" -> "u" [] c = "V" -> "v" [] c = "W" -> "w" [] c = "X" -> "x"
      [] c = "Y" -> "y" [] c = "Z" -> "z" [] OTHER -> c
RECURSIVE Lower(_)
\* s.lower()
Lower(s) ==
    IF s = "" THEN ""
    ELSE LowerChar(SubSeq(s, 1, 1)) \o Lower(SubSeq(s, 2, Len(s)))

\* s.split('.')[-1]
LastDotPart(s) ==
    LET dots == {k \in 1..Len(s) : SubSeq(s, k, k) = "."}
        last == IF dots = {} THEN 0
                ELSE CHOOSE k \in dots : \A d \in dots : d <= k
    IN  SubSeq(s, last + 1, Len(s))

RECURSIVE Rep(_, _)
\* s * n
Rep(s, n) ==
    IF n = 0 THEN ""
    ELSE LET h == Rep(s, n \div 2)
         IN  IF n % 2 = 0 THEN h \o h ELSE h \o h \o s

RECURSIVE Join(_, _)
\* sep.join(parts)
Join(sep, parts) ==
    IF parts = <<>> THEN ""
    ELSE IF Len(parts) = 1 THEN parts[1]
    ELSE parts[1] \o sep \o Join(sep, Tail(parts))

\* what a function did: returned val, or raised an exception whose str() is val;
\* cs are the library calls it made
Ret(v, cs) == [kind |-> "return", val |-> v, calls |-> cs]
Raise(m, cs) == [kind |-> "raise", val |-> m, calls |-> cs]

\* one library call: by which function, with which argument, whether it
\* returned, how many items it returned, and the message it raised
Call(api, by, arg, ok, n, msg) ==
    [api |-> api, by |-> by, arg |-> arg, ok |-> ok, n |-> n, msg |-> msg,
     stage |-> ""]
\* a generation call of run_full_analysis, tagged with its stage
StageCall(stage, model, g) ==
    [Call("generate_content", "run_full_analysis", model, ~g.raises, 0, g.msg)
        EXCEPT !.stage = stage]

-----------------------------------------------------------------------------
(* Section 3 of app.py: the file readers *)

RECURSIVE PdfText(_)
\* for page in reader.pages: extract = page.extract_text(); if extract: text += extract
PdfText(pages) ==
    IF pages = <<>> THEN ""
    ELSE (IF Truthy(pages[1]) THEN pages[1][1] ELSE "") \o PdfText(Tail(pages))

get_text_from_pdf(env) ==
    IF env.raises
    THEN Ret("[PDF read error: " \o env.msg \o "]", <<>>)
    ELSE Ret(PdfText(env.pages), <<>>)

WordLegacyHint == "[Format hint]: legacy Word (.doc) detected. Please save as .docx."

get_text_from_word(env, file_ext) ==
    IF env.raises
    THEN IF Contains("doc", file_ext) /\ ~Contains("docx", file_ext)
         THEN Ret(WordLegacyHint, <<>>)
         ELSE Ret("[Word read error: " \o env.msg \o "]", <<>>)
    ELSE Ret(Join("\n", env.paragraphs), <<>>)

-----------------------------------------------------------------------------
(* Section 4 of app.py: live model discovery *)

NoModelsMsg ==
    "No model supporting content generation was found (permission or region issue)."

\* the names of the listed models whose methods include generateContent
AvailableModels(models) ==
    LET sel == SelectSeq(models,
                   LAMBDA m : "generateContent" \in m.supported_generation_methods)
    IN  [k \in 1..Len(sel) |-> sel[k].name]

\* a faulty variant: the priority loops keep the last match instead of breaking
LastContaining(marker, names) ==
    LET hits == {k \in 1..Len(names) : Contains(marker, names[k])}
    IN  IF hits = {} THEN None
        ELSE Some(names[CHOOSE k \in hits : \A h \in hits : k >= h])

\* for m in available_models: if marker in m: best_model = m; break
FirstContaining(marker, names) ==
    LET hits == {k \in 1..Len(names) : Contains(marker, names[k])}
    IN  IF hits = {} THEN None
        ELSE Some(names[CHOOSE k \in hits : \A h \in hits : k <= h])

\* the priority strategy over a non-empty available_models (lines 67-87)
BestOf(avail) ==
    LET b1 == FirstContaining("flash", avail)
        b2 == IF ~Truthy(b1) THEN FirstContaining("1.5-pro", avail) ELSE b1
        b3 == IF ~Truthy(b2) THEN FirstContaining("gemini-pro", avail) ELSE b2
    IN  IF ~Truthy(b3) THEN Some(avail[1]) ELSE b3

\* returns (best_model, None), or (None, message) when nothing is usable or
\* the listing raised; lo is what genai.list_models() did
find_best_model(lo) ==
    IF lo.raises THEN [model_name |-> None, error |-> Some(lo.msg)]
    ELSE LET avail == AvailableModels(lo.models)
         IN  IF avail = <<>>
             THEN [model_name |-> None, error |-> Some(NoModelsMsg)]
             ELSE [model_name |-> BestOf(avail), error |-> None]

\* the genai.list_models() call as logged: n is the number of usable models
ListCall(by, lo) ==
    Call("list_models", by, "", ~lo.raises,
         IF lo.raises THEN 0 ELSE Len(AvailableModels(lo.models)), lo.msg)

-----------------------------------------------------------------------------
(* Section 5 of app.py: image description *)

analyze_image_content(env) ==
    LET r == find_best_model(env.listing)
        c1 == ListCall("analyze_image_content", env.listing)
        c2 == Call("GenerativeModel", "analyze_image_content",
                   PyStr(r.model_name), ~env.ctor_raises, 0, env.ctor_msg)
        c3 == Call("generate_content", "analyze_image_content",
                   PyStr(r.model_name), ~env.gen_raises, 0, env.msg)
        diag == "[Image analysis error: " \o env.msg \o "]"
    IN  IF Truthy(r.error)
        THEN Ret("[Image analysis failed: " \o r.error[1] \o "]", <<c1>>)
        ELSE IF env.ctor_raises
        THEN Raise(env.ctor_msg, <<c1, c2>>)
        ELSE IF env.open_raises
        THEN Ret(diag, <<c1, c2>>)
        ELSE IF env.format = "TIFF" /\ env.save_raises
        THEN Ret(diag, <<c1, c2>>)
        ELSE IF env.gen_raises
        THEN Ret(diag, <<c1, c2, c3>>)
        ELSE Ret(env.text, <<c1, c2, c3>>)

-----------------------------------------------------------------------------
(* Section 6 of app.py: PubMed *)

NoResultsSentinel == "No recent related literature after 2024 was found."

SearchTerm(kw) ==
    kw \o " AND (2024/01/01[Date - Publication] : 3000[Date - Publication])"

\* a faulty variant: the abstract fetch is attempted for an empty id list too
search_pubmed_fetch_always(kw, es, ef) ==
    LET c1 == Call("esearch", "search_pubmed", SearchTerm(kw), ~es.raises,
                   Len(es.ids), es.msg)
        c2 == Call("efetch", "search_pubmed", "", ~ef.raises, 0, ef.msg)
    IN  IF es.raises
        THEN Ret("PubMed API connection error: " \o es.msg, <<c1>>)
        ELSE IF ef.raises
        THEN Ret("PubMed API connection error: " \o ef.msg, <<c1, c2>>)
        ELSE Ret(ef.text, <<c1, c2>>)

\* a faulty variant: no try/except around the two remote calls
search_pubmed_unguarded(kw, es, ef) ==
    LET c1 == Call("esearch", "search_pubmed", SearchTerm(kw), ~es.raises,
                   Len(es.ids), es.msg)
        c2 == Call("efetch", "search_pubmed", "", ~ef.raises, 0, ef.msg)
    IN  IF es.raises
        THEN Raise(es.msg, <<c1>>)
        ELSE IF es.ids = <<>>
        THEN Ret(NoResultsSentinel, <<c1>>)
        ELSE IF ef.raises
        THEN Raise(ef.msg, <<c1, c2>>)
        ELSE Ret(ef.text, <<c1, c2>>)

\* es, ef: what Entrez.esearch/Entrez.read and Entrez.efetch/read did
search_pubmed(kw, es, ef) ==
    LET c1 == Call("esearch", "search_pubmed", SearchTerm(kw), ~es.raises,
                   Len(es.ids), es.msg)
        c2 == Call("efetch", "search_pubmed", "", ~ef.raises, 0, ef.msg)
    IN  IF es.raises
        THEN Ret("PubMed API connection error: " \o es.msg, <<c1>>)
        ELSE IF es.ids = <<>>
        THEN Ret(NoResultsSentinel, <<c1>>)
        ELSE IF ef.raises
        THEN Ret("PubMed API connection error: " \o ef.msg, <<c1, c2>>)
        ELSE Ret(ef.text, <<c1, c2>>)

-----------------------------------------------------------------------------
(* What the libraries may do *)

Model(name, methods) == [name |-> name, supported_generation_methods |-> methods]
Listed(models) == [raises |-> FALSE, msg |-> "", models |-> models]
ListRaises(msg) == [raises |-> TRUE, msg |-> msg, models |-> <<>>]

GeminiPro == Model("models/gemini-pro", {"generateContent", "countTokens"})
Gemini15Pro == Model("models/gemini-1.5-pro", {"generateContent", "countTokens"})
Gemini15Flash == Model("models/gemini-1.5-flash", {"generateContent", "countTokens"})
Gemini20Flash == Model("models/gemini-2.0-flash", {"generateContent"})
Aqa == Model("models/aqa", {"generateAnswer", "generateContent"})
Embedding == Model("models/embedding-001", {"embedContent"})
FlashEmbedding == Model("models/flash-embedding", {"embedContent"})

ModelUniverse ==
    {GeminiPro, Gemini15Pro, Gemini15Flash, Gemini20Flash, Aqa, Embedding,
     FlashEmbedding}

\* every listing of at most MaxModels models, and two ways of raising
AllListings ==
    {Listed(ms) : ms \in UNION {[1..n -> ModelUniverse] : n \in 0..MaxModels}}
    \cup {ListRaises("403 permission denied"), ListRaises("")}

\* the listings a run of the script meets
RunListings ==
    {ListRaises("403 API key was reported as leaked"), ListRaises(""),
     Listed(<<Embedding>>), Listed(<<GeminiPro, Embedding, Gemini15Flash>>),
     Listed(<<Aqa>>)}

\* GenerativeModel(model_name): returns a handle or raises.  For a name it
\* may do either; for None the constructor's test of the name ('"/" not in
\* model_name') raises TypeError.
Constructs == [raises |-> FALSE, msg |-> ""]
CtorRaises == [raises |-> TRUE, msg |-> "invalid model name"]
CtorTypeError ==
    [raises |-> TRUE, msg |-> "argument of type 'NoneType' is not iterable"]
CtorOutcomes(name) ==
    IF name = None THEN {CtorTypeError} ELSE {Constructs, CtorRaises}

Generated(text) == [raises |-> FALSE, msg |-> "", text |-> text]
GenRaises(msg) == [raises |-> TRUE, msg |-> msg, text |-> ""]

KeywordOutcomes ==
    {Generated("  sepsis biomarkers procalcitonin\n"),
     GenRaises("404 models/gemini-1.5-flash is not found"),
     GenRaises("503 The model is overloaded")}

ReportOutcomes ==
    {Generated("### PART 1\nOverview ... **Minor Revision**\n### PART 2\n1. ..."),
     Generated("Error bars are missing in [Results, Figure 2]. **Major Revision**"),
     Generated(""),
     GenRaises("429 quota exceeded"),
     GenRaises("403 API key was reported as leaked")}

Found(ids) == [raises |-> FALSE, msg |-> "", ids |-> ids]
SearchRaises(msg) == [raises |-> TRUE, msg |-> msg, ids |-> <<>>]
EsearchOutcomes ==
    {Found(<<>>), Found(<<"39000001", "39000002">>), SearchRaises("HTTP Error 429")}

Fetched(text) == [raises |-> FALSE, msg |-> "", text |-> text]
FetchRaises(msg) == [raises |-> TRUE, msg |-> msg, text |-> ""]
EfetchOutcomes ==
    {Fetched("1. Crit Care. 2024;28(1):12. Procalcitonin-guided therapy ..."),
     FetchRaises("<urlopen error timed out>")}

\* what the readers of one uploaded file may do
Env0 ==
    [raises |-> FALSE, msg |-> "", pages |-> <<>>, paragraphs |-> <<>>,
     listing |-> Listed(<<>>), ctor_raises |-> FALSE, ctor_msg |-> "",
     open_raises |-> FALSE, format |-> "", save_raises |-> FALSE,
     gen_raises |-> FALSE, text |-> ""]

PdfEnvs ==
    {[Env0 EXCEPT !.raises = TRUE, !.msg = "EOF marker not found"],
     [Env0 EXCEPT !.pages = <<Some("Patients with X..."), None, Some(""),
                              Some("Methods: ...")>>],
     \* a manuscript that quotes an earlier merged corpus
     [Env0 EXCEPT !.pages = <<Some("Appendix\n\n--- File: b.docx ---\nold")>>]}

\* page texts that bring the corpus of a.pdf alone exactly to the budgets,
\* and beyond them
PdfDelimiterLen == Len("\n\n--- File: a.pdf ---\n")
LongPdfEnvs ==
    {[Env0 EXCEPT !.pages = <<Some(Rep("p", KeywordBudget - PdfDelimiterLen))>>],
     [Env0 EXCEPT !.pages = <<Some(Rep("q", KeywordBudget)), Some("tail")>>],
     [Env0 EXCEPT !.pages = <<Some(Rep("r", ReportBudget - PdfDelimiterLen))>>],
     [Env0 EXCEPT !.pages = <<Some(Rep("s", ReportBudget)), None, Some("tail")>>]}

WordEnvs ==
    {[Env0 EXCEPT !.raises = TRUE, !.msg = "File is not a zip file"],
     [Env0 EXCEPT !.paragraphs = <<"Methods: ...", "", "Results: ...">>]}

ImageEnv(listing, fmt) == [Env0 EXCEPT !.listing = listing, !.format = fmt,
                                       !.text = "Figure 1: survival curves ..."]
Flash == Listed(<<GeminiPro, Gemini15Flash>>)
ImageEnvs(fmt) ==
    {ImageEnv(ListRaises("403 permission denied"), fmt),
     [ImageEnv(ListRaises(""), fmt) EXCEPT !.ctor_raises = TRUE,
         !.ctor_msg = CtorTypeError.msg],
     ImageEnv(Flash, fmt),
     [ImageEnv(Flash, fmt) EXCEPT !.ctor_raises = TRUE,
         !.ctor_msg = CtorRaises.msg],
     [ImageEnv(Flash, fmt) EXCEPT !.open_raises = TRUE,
         !.msg = "cannot identify image file"],
     [ImageEnv(Flash, fmt) EXCEPT !.save_raises = TRUE,
         !.msg = "cannot write mode CMYK as PNG"],
     [ImageEnv(Flash, fmt) EXCEPT !.gen_raises = TRUE,
         !.msg = "503 The model is overloaded"]}

\* the files a user may select; the uploader accepts these extensions only
FileNames == {"a.pdf", "b.docx", "old.doc", "fig1.png", "SCAN.TIF"}

\* the encoded format PIL reports for an image file
FormatOf(ext) ==
    CASE ext \in {"tiff", "tif"} -> "TIFF"
      [] ext \in {"jpg", "jpeg"} -> "JPEG"
      [] OTHER -> "PNG"

ExtractEnvs(ext, long) ==
    CASE ext = "pdf" -> PdfEnvs \cup (IF long THEN LongPdfEnvs ELSE {})
      [] ext \in {"docx", "doc"} -> WordEnvs
      [] OTHER -> ImageEnvs(FormatOf(ext))

Uploads(max) == UNION {[1..n -> FileNames] : n \in 1..max}

-----------------------------------------------------------------------------
(* Section 8 of app.py: the main script *)

\* a faulty variant: the file name alone, without the "--- File:" marks
DelimiterBare(name) == "\n\n" \o name \o "\n"
\* f"\n\n--- File: {file.name} ---\n"
Delimiter(name) == "\n\n--- File: " \o name \o " ---\n"

\* file.name.split('.')[-1].lower()
ExtOf(name) == Lower(LastDotPart(name))

ImageExts == {"jpg", "jpeg", "png", "tiff", "tif"}

\* the extractor the merge loop calls for ext, if any
Extract(ext, env) ==
    CASE ext = "pdf" -> get_text_from_pdf(env)
      [] ext \in {"docx", "doc"} -> get_text_from_word(env, ext)
      [] ext \in ImageExts -> analyze_image_content(env)
      [] OTHER -> [kind |-> "none", val |-> "", calls |-> <<>>]

\* what the loop body appends after the delimiter
Contribution(name, ext, r) ==
    IF r.kind # "return" THEN ""
    ELSE IF ext \in ImageExts
    THEN "\n[Figure content - " \o name \o "]: " \o r.val \o "\n"
    ELSE r.val

\* the script as the button is about to be clicked, files already selected
InitWith(uploads) ==
    /\ pc = "idle"
    /\ uploaded_files \in uploads
    /\ i = 0
    /\ combined_text = ""
    /\ extractLog = <<>>
    /\ warnings = <<>>
    /\ arg_text = ""
    /\ available_models = <<>>
    /\ model_name = None
    /\ error = None
    /\ keyword_prompt = ""
    /\ keywords = ""
    /\ pubmed_data = None
    /\ review_prompt = ""
    /\ result = None
    /\ outcome = "none"
    /\ shown = "none"
    /\ calls = <<>>

\* the button: combined_text = "" and the loop begins
Click ==
    /\ pc = "idle"
    /\ uploaded_files # <<>>
    /\ pc' = "merging"
    /\ combined_text' = ""
    /\ i' = 0
    /\ UNCHANGED <<uploaded_files, extractLog, warnings, arg_text,
                   available_models, model_name, error, keyword_prompt,
                   keywords, pubmed_data, review_prompt, result, outcome,
                   shown, calls>>

\* one iteration of the merge loop
MergeFile(long) ==
    /\ pc = "merging"
    /\ i < Len(uploaded_files)
    /\ LET name == uploaded_files[i + 1]
           ext == ExtOf(name)
       IN  \E env \in ExtractEnvs(ext, long) :
             LET r == Extract(ext, env)
                 added == Contribution(name, ext, r)
             IN  /\ combined_text' = combined_text \o Delimiter(name) \o added
                 /\ warnings' = IF r.kind = "raise"
                                THEN Append(warnings, r.val) ELSE warnings
                 /\ extractLog' = Append(extractLog,
                        [name |-> name, ext |-> ext, kind |-> r.kind,
                         val |-> r.val, added |-> added])
                 /\ calls' = calls \o r.calls
    /\ i' = i + 1
    /\ UNCHANGED <<pc, uploaded_files, arg_text, available_models, model_name,
                   error, keyword_prompt, keywords, pubmed_data, review_prompt,
                   result, outcome, shown>>

\* result = run_full_analysis(combined_text, gemini_api_key)
StartAnalysis ==
    /\ pc = "merging"
    /\ i = Len(uploaded_files)
    /\ pc' = "ResolvingModel"
    /\ arg_text' = combined_text
    /\ UNCHANGED <<uploaded_files, i, combined_text, extractLog, warnings,
                   available_models, model_name, error, keyword_prompt,
                   keywords, pubmed_data, review_prompt, result, outcome,
                   shown, calls>>

-----------------------------------------------------------------------------
(* Section 7 of app.py: run_full_analysis *)

KeywordPromptHead ==
    "Extract 3-5 medical keywords (MeSH terms) from the following, separated by spaces:\n"

ReviewHead ==
    "\n    You are a senior Medical Journal Reviewer.\n    [INPUT DATA]\n    1. Manuscript Content: \n    "
ReviewMid == "\n    \n    2. Latest PubMed Literature (2024-Present):\n    "
ReviewTail == "\n\n    [REQUIREMENTS]\n    Please generate the output in **TWO PARTS**. ...\n    "

\* a faulty variant: the keyword prompt is cut at the report budget
KeywordPromptWide(text) == KeywordPromptHead \o Take(text, ReportBudget)
KeywordPrompt(text) == KeywordPromptHead \o Take(text, KeywordBudget)

ReviewPrompt(text, literature) ==
    ReviewHead \o Take(text, ReportBudget) \o ReviewMid \o literature \o ReviewTail

\* the three failure returns
ResolutionFailure(err) == "Error (model detection failed): " \o err
\* a faulty variant: the keyword failure drops the model name and the error
KeywordFailureBare(model, msg) == "Error (keyword stage)"
KeywordFailure(model, msg) == "Error (keyword stage - " \o model \o "): " \o msg
ReportFailure(model, msg) ==
    "Error (report generation stage - " \o model \o "): " \o msg

\* a faulty variant: a "not found" answer is retried on a second model
GenerationCallsWithFallback(stage, model, g) ==
    IF g.raises /\ Contains("404", g.msg)
    THEN <<StageCall(stage, model, g), StageCall(stage, "models/gemini-pro", g)>>
    ELSE <<StageCall(stage, model, g)>>
\* the generation calls one stage makes: model.generate_content(prompt), once
GenerationCalls(stage, model, g) == <<StageCall(stage, model, g)>>

\* step 0: find_best_model, the error return, GenerativeModel(model_name)
ResolveModel(listings) ==
    /\ pc = "ResolvingModel"
    /\ \E lo \in listings :
       \E ct \in CtorOutcomes(find_best_model(lo).model_name) :
         LET r == find_best_model(lo)
             c1 == ListCall("run_full_analysis", lo)
             c2 == Call("GenerativeModel", "run_full_analysis",
                        PyStr(r.model_name), ~ct.raises, 0, ct.msg)
         IN  /\ model_name' = r.model_name
             /\ error' = r.error
             /\ available_models' =
                    IF lo.raises THEN <<>> ELSE AvailableModels(lo.models)
             /\ IF Truthy(r.error)
                THEN /\ result' = Some(ResolutionFailure(PyStr(r.error)))
                     /\ outcome' = "Failed_ModelResolution"
                     /\ pc' = "returned"
                     /\ calls' = Append(calls, c1)
                ELSE /\ calls' = calls \o <<c1, c2>>
                     /\ pc' = IF ct.raises THEN "crashed" ELSE "ExtractingKeywords"
                     /\ UNCHANGED <<result, outcome>>
    /\ UNCHANGED <<uploaded_files, i, combined_text, extractLog, warnings,
                   arg_text, keyword_prompt, keywords, pubmed_data,
                   review_prompt, shown>>

\* step A: the keyword prompt and its one generation call
ExtractKeywords ==
    /\ pc = "ExtractingKeywords"
    /\ keyword_prompt' = KeywordPrompt(arg_text)
    /\ \E g \in KeywordOutcomes :
         /\ calls' = calls \o
                GenerationCalls("KeywordExtraction", PyStr(model_name), g)
         /\ IF g.raises
            THEN /\ result' = Some(KeywordFailure(PyStr(model_name), g.msg))
                 /\ outcome' = "Failed_KeywordExtraction"
                 /\ pc' = "returned"
                 /\ UNCHANGED keywords
            ELSE /\ keywords' = Strip(g.text)
                 /\ pc' = "SearchingLiterature"
                 /\ UNCHANGED <<result, outcome>>
    /\ UNCHANGED <<uploaded_files, i, combined_text, extractLog, warnings,
                   arg_text, available_models, model_name, error, pubmed_data,
                   review_prompt, shown>>

\* step B: pubmed_data = search_pubmed(keywords)
SearchLiterature ==
    /\ pc = "SearchingLiterature"
    /\ \E es \in EsearchOutcomes, ef \in EfetchOutcomes :
         LET r == search_pubmed(keywords, es, ef)
         IN  /\ calls' = calls \o r.calls
             /\ IF r.kind = "return"
                THEN /\ pubmed_data' = Some(r.val)
                     /\ pc' = "SynthesizingReport"
                ELSE /\ pc' = "crashed"
                     /\ UNCHANGED pubmed_data
    /\ UNCHANGED <<uploaded_files, i, combined_text, extractLog, warnings,
                   arg_text, available_models, model_name, error,
                   keyword_prompt, keywords, review_prompt, result, outcome,
                   shown>>

\* step C: the review prompt and its one generation call
SynthesizeReport ==
    /\ pc = "SynthesizingReport"
    /\ review_prompt' = ReviewPrompt(arg_text, PyStr(pubmed_data))
    /\ \E g \in ReportOutcomes :
         /\ calls' = calls \o
                GenerationCalls("ReportSynthesis", PyStr(model_name), g)
         /\ IF g.raises
            THEN /\ result' = Some(ReportFailure(PyStr(model_name), g.msg))
                 /\ outcome' = "Failed_ReportSynthesis"
            ELSE /\ result' = Some(g.text)
                 /\ outcome' = "Done"
    /\ pc' = "returned"
    /\ UNCHANGED <<uploaded_files, i, combined_text, extractLog, warnings,
                   arg_text, available_models, model_name, error,
                   keyword_prompt, keywords, pubmed_data, shown>>

-----------------------------------------------------------------------------
(* Section 8 of app.py: what the script shows *)

\* if result and result.startswith("Error"): ... elif result: ...
Presentation(res) ==
    IF Truthy(res) /\ StartsWith(res[1], "Error")
    THEN IF Contains("leaked", res[1]) THEN "failure+leaked_hint" ELSE "failure"
    ELSE IF Truthy(res) THEN "report+download"
    ELSE "nothing"

Present ==
    /\ pc = "returned"
    /\ shown' = Presentation(result)
    /\ pc' = "presented"
    /\ UNCHANGED <<uploaded_files, i, combined_text, extractLog, warnings,
                   arg_text, available_models, model_name, error,
                   keyword_prompt, keywords, pubmed_data, review_prompt,
                   result, outcome, calls>>

-----------------------------------------------------------------------------
(* Specifications *)

Next ==
    \/ Click
    \/ MergeFile(TRUE)
    \/ StartAnalysis
    \/ ResolveModel(RunListings)
    \/ ExtractKeywords
    \/ SearchLiterature
    \/ SynthesizeReport
    \/ Present

Init == InitWith(Uploads(MaxRunUploads))

\* the whole script
Spec == Init /\ [][Next]_vars

InitMerge == InitWith(Uploads(MaxUploads))

NextMerge ==
    \/ Click
    \/ MergeFile(FALSE)
    \/ StartAnalysis

\* the merge loop up to the call of run_full_analysis, several uploads
SpecMerge == InitMerge /\ [][NextMerge]_vars

InitResolver == InitWith({<<"a.pdf">>})

NextResolver ==
    \/ Click
    \/ MergeFile(FALSE)
    \/ StartAnalysis
    \/ ResolveModel(AllListings)

\* model resolution over every provider listing of at most MaxModels models
SpecResolver == InitResolver /\ [][NextResolver]_vars

-----------------------------------------------------------------------------
(* Reading the call log *)

\* the library calls made inside run_full_analysis (search_pubmed included)
RunCalls ==
    SelectSeq(calls, LAMBDA c : c.by \in {"run_full_analysis", "search_pubmed"})
SearchCalls == SelectSeq(calls, LAMBDA c : c.by = "search_pubmed")
RunCallsOf(api) == SelectSeq(RunCalls, LAMBDA c : c.api = api)
StageCalls(stage) == SelectSeq(RunCalls, LAMBDA c : c.stage = stage)

FailedOutcomes ==
    {"Failed_ModelResolution", "Failed_KeywordExtraction", "Failed_ReportSynthesis"}

-----------------------------------------------------------------------------
(* C1 *)

\* C1: the literature-search stage never fails the run.  Every step taken
\* from SearchingLiterature goes to SynthesizingReport with a string in
\* pubmed_data and no failure recorded; a failure is only ever recorded by a
\* step of model resolution, keyword extraction or report synthesis; and the
\* synthesis prompt embeds exactly the string search_pubmed returned.
C1_SearchNeverFails ==
    /\ [][pc = "SearchingLiterature" =>
            /\ pc' = "SynthesizingReport"
            /\ pubmed_data' # None
            /\ outcome' = "none" /\ result' = None]_vars
    /\ [][outcome' # outcome /\ outcome' \in FailedOutcomes =>
            \/ pc = "ResolvingModel" /\ outcome' = "Failed_ModelResolution"
            \/ pc = "ExtractingKeywords" /\ outcome' = "Failed_KeywordExtraction"
            \/ pc = "SynthesizingReport" /\ outcome' = "Failed_ReportSynthesis"]_vars
    /\ [](outcome \in {"Done", "Failed_ReportSynthesis"} =>
            /\ pubmed_data # None
            /\ review_prompt =
                 ReviewHead \o SubSeq(arg_text, 1, Min(ReportBudget, Len(arg_text)))
                   \o ReviewMid \o pubmed_data[1] \o ReviewTail)

\* a run whose id search raised and whose report was still produced
C1_Witness ==
    /\ outcome = "Done"
    /\ pubmed_data = Some("PubMed API connection error: HTTP Error 429")
    /\ Len(SearchCalls) = 1 /\ ~SearchCalls[1].ok

-----------------------------------------------------------------------------
(* C2 *)

\* C2: a failed generation call of the keyword stage ends the run as a
\* keyword-stage failure that carries the model name and the error, with no
\* literature search call and no synthesis call; a failed generation call of
\* the synthesis stage ends it as a synthesis-stage failure that carries the
\* model name and the error; a recorded resolution failure is followed by no
\* generation and no search call.
C2_FailureSkipsLaterStages ==
    /\ \A k \in 1..Len(RunCalls) :
          LET c == RunCalls[k] IN
          c.api = "generate_content" /\ ~c.ok =>
            /\ k = Len(RunCalls)
            /\ c.stage = "KeywordExtraction" =>
                 /\ outcome = "Failed_KeywordExtraction"
                 /\ result = Some("Error (keyword stage - " \o PyStr(model_name)
                                    \o "): " \o c.msg)
            /\ c.stage = "ReportSynthesis" =>
                 /\ outcome = "Failed_ReportSynthesis"
                 /\ result = Some("Error (report generation stage - "
                                    \o PyStr(model_name) \o "): " \o c.msg)
    /\ outcome = "Failed_KeywordExtraction" =>
          /\ SearchCalls = <<>>
          /\ StageCalls("ReportSynthesis") = <<>>
          /\ pubmed_data = None /\ review_prompt = ""
          /\ ~RunCalls[Len(RunCalls)].ok
    /\ outcome = "Failed_ReportSynthesis" =>
          /\ RunCalls[Len(RunCalls)].stage = "ReportSynthesis"
          /\ ~RunCalls[Len(RunCalls)].ok
    /\ outcome = "Failed_ModelResolution" =>
          /\ RunCallsOf("generate_content") = <<>>
          /\ SearchCalls = <<>>

\* a presented run whose keyword call raised
C2_Witness ==
    /\ pc = "presented"
    /\ outcome = "Failed_KeywordExtraction"
    /\ result = Some("Error (keyword stage - models/gemini-1.5-flash): 503 The model is overloaded")

-----------------------------------------------------------------------------
(* C3 *)

\* the run's listing gave no usable identifier: it raised, or listed no model
\* supporting generateContent
ResolutionImpossible ==
    \E k \in 1..Len(RunCalls) :
        RunCalls[k].api = "list_models" /\ (~RunCalls[k].ok \/ RunCalls[k].n = 0)

\* C3: whenever the listing gives no usable identifier, the run ends in a
\* model-resolution failure carrying the cause, no model handle is
\* constructed and no generation call is made.
C3_NoModelMeansResolutionFailure ==
    ResolutionImpossible =>
        /\ outcome = "Failed_ModelResolution"
        /\ result # None /\ StartsWith(result[1], "Error (model detection failed): ")
        /\ RunCallsOf("GenerativeModel") = <<>>
        /\ RunCallsOf("generate_content") = <<>>

-----------------------------------------------------------------------------
(* C4 *)

\* m is the first name of names (in provider order) that contains marker
IsFirstWith(marker, m, names) ==
    \E k \in 1..Len(names) :
        /\ names[k] = m
        /\ Contains(marker, m)
        /\ \A j \in 1..(k - 1) : ~Contains(marker, names[j])
NoneWith(marker, names) == \A k \in 1..Len(names) : ~Contains(marker, names[k])

\* C4: for every non-empty list of generation-capable identifiers,
\* find_best_model returns the first one containing 'flash'; if there is none,
\* the first containing '1.5-pro'; if none, the first containing
\* 'gemini-pro'; if none, the first of the list.  The identifier is a member
\* of the list and the error is None.
C4_PriorityOrder ==
    (pc \notin {"idle", "merging", "ResolvingModel"} /\ available_models # <<>>) =>
        /\ error = None
        /\ model_name # None
        /\ \E k \in 1..Len(available_models) : available_models[k] = model_name[1]
        /\ \/ IsFirstWith("flash", model_name[1], available_models)
           \/ /\ NoneWith("flash", available_models)
              /\ IsFirstWith("1.5-pro", model_name[1], available_models)
           \/ /\ NoneWith("flash", available_models)
              /\ NoneWith("1.5-pro", available_models)
              /\ IsFirstWith("gemini-pro", model_name[1], available_models)
           \/ /\ NoneWith("flash", available_models)
              /\ NoneWith("1.5-pro", available_models)
              /\ NoneWith("gemini-pro", available_models)
              /\ model_name[1] = available_models[1]

\* a listing where the second priority decides against provider order
C4_Witness ==
    /\ pc = "ExtractingKeywords"
    /\ available_models = <<"models/aqa", "models/gemini-pro", "models/gemini-1.5-pro">>
    /\ model_name = Some("models/gemini-1.5-pro")

-----------------------------------------------------------------------------
(* C5 *)

\* C5: no extractor call of the merge loop raised: each returned a string.
C5_ExtractorsNeverRaise ==
    \A k \in 1..Len(extractLog) : extractLog[k].kind = "return"

-----------------------------------------------------------------------------
(* C6 *)

\* C6: search_pubmed makes at most one id search and at most one abstract
\* fetch, the id search first; the fetch is made only after an id search
\* that returned a non-empty id list, and an empty id list gives the fixed
\* sentinel with no second call.
C6_SearchThenFetch ==
    /\ Len(SearchCalls) <= 2
    /\ SearchCalls # <<>> => SearchCalls[1].api = "esearch"
    /\ Len(SearchCalls) = 2 =>
          /\ SearchCalls[2].api = "efetch"
          /\ SearchCalls[1].ok /\ SearchCalls[1].n > 0
    /\ (SearchCalls # <<>> /\ SearchCalls[1].ok /\ SearchCalls[1].n = 0) =>
          /\ Len(SearchCalls) = 1
          /\ pubmed_data = Some("No recent related literature after 2024 was found.")
    /\ (pc = "SynthesizingReport") => SearchCalls # <<>>

\* an id search that found nothing
C6_Witness ==
    /\ pc = "SynthesizingReport"
    /\ SearchCalls # <<>> /\ SearchCalls[1].ok /\ SearchCalls[1].n = 0
    /\ pubmed_data = Some(NoResultsSentinel)

-----------------------------------------------------------------------------
(* C7 *)

DelimiterMark == "--- File: "

RECURSIVE Segments(_, _)
\* the corpus the first n files should have given: per file, its delimiter
\* line and then what was appended for it
Segments(n, log) ==
    IF n = 0 THEN ""
    ELSE Segments(n - 1, log)
           \o "\n\n--- File: " \o uploaded_files[n] \o " ---\n" \o log[n].added

\* C7 as stated: after the merge loop the corpus holds exactly one delimiter
\* per uploaded file, in upload order, each followed by its file's text, and
\* the pipeline is run on that corpus.
C7_ExactlyOneDelimiterPerFile ==
    pc = "ResolvingModel" =>
        /\ CountOcc(DelimiterMark, combined_text) = Len(uploaded_files)
        /\ Len(extractLog) = Len(uploaded_files)
        /\ combined_text = Segments(Len(uploaded_files), extractLog)
        /\ arg_text = combined_text

\* C7 as amended: the loop writes one delimiter per uploaded file, in upload
\* order, each followed by what its extractor returned (nothing when the
\* extractor raised) and then by the next file's delimiter; the corpus holds
\* no other delimiter unless an extracted text or a file name itself contains
\* one; the pipeline is run on that corpus.
C7_OneWrittenDelimiterPerFile ==
    /\ pc # "idle" =>
          /\ Len(extractLog) = i
          /\ \A k \in 1..i :
                /\ extractLog[k].name = uploaded_files[k]
                /\ extractLog[k].kind = "return" =>
                      Contains(extractLog[k].val, extractLog[k].added)
                /\ extractLog[k].kind # "return" => extractLog[k].added = ""
          /\ combined_text = Segments(i, extractLog)
          /\ CountOcc(DelimiterMark, combined_text) >= i
          /\ (\A k \in 1..i : /\ ~Contains(DelimiterMark, extractLog[k].val)
                               /\ ~Contains(DelimiterMark, uploaded_files[k])) =>
                CountOcc(DelimiterMark, combined_text) = i
    /\ pc = "ResolvingModel" =>
          /\ i = Len(uploaded_files)
          /\ arg_text = combined_text

\* two uploads merged, the first extractor having raised
C7_Witness ==
    /\ pc = "ResolvingModel"
    /\ uploaded_files = <<"fig1.png", "a.pdf">>
    /\ extractLog[1].kind = "raise"
    /\ extractLog[2].val = "Patients with X...Methods: ..."
    /\ CountOcc(DelimiterMark, combined_text) = 2

-----------------------------------------------------------------------------
(* C8 *)

\* C8: the keyword prompt holds the first 5,000 characters of the corpus and
\* the synthesis prompt the first 30,000 characters of the same corpus (all
\* of it when it is shorter), and the corpus is the same at both stages.
C8_PromptBudgets ==
    /\ pc \notin {"idle", "merging"} => arg_text = combined_text
    /\ keyword_prompt # "" =>
          keyword_prompt =
            KeywordPromptHead
              \o SubSeq(combined_text, 1, Min(5000, Len(combined_text)))
    /\ review_prompt # "" =>
          /\ keyword_prompt # ""
          /\ review_prompt =
               ReviewHead \o SubSeq(combined_text, 1, Min(30000, Len(combined_text)))
                 \o ReviewMid \o PyStr(pubmed_data) \o ReviewTail
    /\ pc \in {"SearchingLiterature", "SynthesizingReport"} => keyword_prompt # ""
    /\ outcome \in {"Done", "Failed_ReportSynthesis"} => review_prompt # ""

\* a corpus longer than both budgets, cut by both stages
C8_Witness ==
    /\ outcome = "Done"
    /\ Len(combined_text) > ReportBudget
    /\ Len(keyword_prompt) = Len(KeywordPromptHead) + KeywordBudget
    /\ Len(review_prompt) =
          Len(ReviewHead) + ReportBudget + Len(ReviewMid) + Len(PyStr(pubmed_data))
            + Len(ReviewTail)

-----------------------------------------------------------------------------
(* C9 *)

\* C9: one run resolves the model once, constructs one handle, and makes at
\* most one generation call per stage, each on the resolved identifier; a
\* generation call that raised is the run's last call and is that stage's
\* failure.
C9_NoFallback ==
    /\ Len(RunCallsOf("list_models")) <= 1
    /\ pc \notin {"idle", "merging", "ResolvingModel"} =>
          Len(RunCallsOf("list_models")) = 1
    /\ Len(RunCallsOf("GenerativeModel")) <= 1
    /\ Len(StageCalls("KeywordExtraction")) <= 1
    /\ Len(StageCalls("ReportSynthesis")) <= 1
    /\ \A k \in 1..Len(RunCalls) :
          LET c == RunCalls[k] IN
          /\ c.api \in {"GenerativeModel", "generate_content"} =>
                c.arg = PyStr(model_name)
          /\ (c.api = "generate_content" /\ ~c.ok) =>
                /\ k = Len(RunCalls)
                /\ outcome = (IF c.stage = "KeywordExtraction"
                              THEN "Failed_KeywordExtraction"
                              ELSE "Failed_ReportSynthesis")
                /\ result # None /\ Contains(c.msg, result[1])

\* a run whose keyword call was answered "not found"
C9_Witness ==
    /\ pc = "presented"
    /\ model_name = Some("models/gemini-1.5-flash")
    /\ Len(RunCallsOf("generate_content")) = 1
    /\ result = Some("Error (keyword stage - models/gemini-1.5-flash): 404 models/gemini-1.5-flash is not found")

-----------------------------------------------------------------------------
(* C10 *)

\* C10: a run is presented as failed exactly when it ended in a failed
\* stage, and a run whose synthesis succeeded is presented as a report with
\* a download.
C10_FailureShownIffFailed ==
    pc = "presented" =>
        /\ (shown \in {"failure", "failure+leaked_hint"}) <=> (outcome \in FailedOutcomes)
        /\ outcome = "Done" => shown = "report+download"

====
